---------------------------- MODULE Spec2Model ----------------------------
(***************************************************************************)
(* A model of src/language.rs: the Term data model, the printer (the      *)
(* Display implementations) and the parser (the grammar built on the      *)
(* combinators of crate::parser).                                          *)
(*                                                                         *)
(* Representation.  A text (Rust &str / String) is a sequence of Unicode  *)
(* code points, so `c as u64` and char::from_u32 are arithmetic on the    *)
(* elements.  A parser state (code, index) is an index 0..Len(code) into  *)
(* the text, counted in characters.  A u64 is the sequence of its decimal *)
(* digits without leading zeros (<<0>> is zero): the values up to 2^64-1  *)
(* are exactly the digit sequences not above U64Max.                       *)
(*                                                                         *)
(* An Answer is one of                                                     *)
(*   [tag |-> "Ok", idx, val]    Ok((state, val))                          *)
(*   [tag |-> "Err", exp, idx]   Err("expected <exp>" at offset idx)       *)
(*   [tag |-> "Panic"]           the thread panicked (a failed unwrap)     *)
(*   [tag |-> "Hang"]            the call never returns: a loop whose      *)
(*                               iteration leaves the state it reads      *)
(*                               unchanged repeats that iteration forever  *)
(***************************************************************************)
EXTENDS Integers, Sequences, FiniteSets, TLC

(***************************************************************************)
(* Characters                                                              *)
(***************************************************************************)
LowerSeq == <<"a","b","c","d","e","f","g","h","i","j","k","l","m",
              "n","o","p","q","r","s","t","u","v","w","x","y","z">>
UpperSeq == <<"A","B","C","D","E","F","G","H","I","J","K","L","M",
              "N","O","P","Q","R","S","T","U","V","W","X","Y","Z">>
DigitSeq == <<"0","1","2","3","4","5","6","7","8","9">>

\* The code point of a character, written as a one-character string
\* or as its name ("lambda" is U+03BB, "nul" U+0000, "nl" the line feed, ...).
CodePoint(c) ==
  IF \E i \in 1..26 : LowerSeq[i] = c THEN 96 + (CHOOSE i \in 1..26 : LowerSeq[i] = c)
  ELSE IF \E i \in 1..26 : UpperSeq[i] = c THEN 64 + (CHOOSE i \in 1..26 : UpperSeq[i] = c)
  ELSE IF \E i \in 1..10 : DigitSeq[i] = c THEN 47 + (CHOOSE i \in 1..10 : DigitSeq[i] = c)
  ELSE CASE c = "nul" -> 0    [] c = "tab" -> 9    [] c = "nl" -> 10  [] c = "cr" -> 13
         [] c = " "  -> 32    [] c = "!" -> 33    [] c = "quote" -> 34  [] c = "$" -> 36
         [] c = "%"  -> 37    [] c = "&" -> 38    [] c = "apos" -> 39   [] c = "(" -> 40
         [] c = ")"  -> 41    [] c = "*" -> 42    [] c = "+" -> 43   [] c = "," -> 44
         [] c = "-"  -> 45    [] c = "." -> 46    [] c = "/" -> 47   [] c = ";" -> 59
         [] c = "<"  -> 60    [] c = "=" -> 61    [] c = ">" -> 62   [] c = "@" -> 64
         [] c = "["  -> 91    [] c = "]" -> 93    [] c = "^" -> 94   [] c = "_" -> 95
         [] c = "backtick" -> 96    [] c = "|" -> 124   [] c = "lambda" -> 955

CharNames ==
  {LowerSeq[i] : i \in 1..26} \cup {UpperSeq[i] : i \in 1..26}
    \cup {DigitSeq[i] : i \in 1..10}
    \cup {"nul", "tab", "nl", "cr", " ", "!", "quote", "$", "%", "&", "apos", "(",
          ")", "*", "+", ",", "-", ".", "/", ";", "<", "=", ">", "@", "[", "]",
          "^", "_", "backtick", "|", "lambda"}
OrdTab == [c \in CharNames |-> CodePoint(c)]

\* The text whose characters are the one-character strings of s.
Txt(s) == SubSeq([i \in 1..Len(s) |-> OrdTab[s[i]]], 1, Len(s))

\* the characters the program names
ch_nul == 0
ch_tab == 9
ch_nl == 10
ch_cr == 13
ch_space == 32
ch_bang == 33
ch_quote == 34
ch_dollar == 36
ch_percent == 37
ch_amp == 38
ch_apos == 39
ch_lparen == 40
ch_rparen == 41
ch_star == 42
ch_plus == 43
ch_comma == 44
ch_minus == 45
ch_dot == 46
ch_slash == 47
ch_0 == 48
ch_9 == 57
ch_semi == 59
ch_lt == 60
ch_eq == 61
ch_gt == 62
ch_at == 64
ch_A == 65
ch_Z == 90
ch_lbrack == 91
ch_rbrack == 93
ch_caret == 94
ch_underscore == 95
ch_backtick == 96
ch_a == 97
ch_z == 122
ch_bar == 124
ch_lambda == 955

(***************************************************************************)
(* u64 as decimal digits                                                   *)
(***************************************************************************)
U64Max == <<1,8,4,4,6,7,4,4,0,7,3,7,0,9,5,5,1,6,1,5>>

\* the digits from the first that is not 0 (the last one when all are 0)
StripZeros(ds) ==
  LET first == CHOOSE k \in 1..Len(ds) :
                 /\ k = Len(ds) \/ ds[k] # 0
                 /\ \A j \in 1..(k - 1) : ds[j] = 0
  IN  SubSeq(ds, first, Len(ds))

\* a <= b, digit by digit, for sequences of one length
LexLeq(a, b) ==
  \/ a = b
  \/ \E k \in 1..Len(a) : a[k] < b[k] /\ \A j \in 1..(k - 1) : a[j] = b[j]

\* a <= b for canonical digit sequences
DigitsLeq(a, b) ==
  \/ Len(a) < Len(b)
  \/ Len(a) = Len(b) /\ LexLeq(a, b)

\* the u64 of a small natural number (`c as u64`)
RECURSIVE U64OfNat(_)
U64OfNat(n) == IF n < 10 THEN <<n>> ELSE Append(U64OfNat(n \div 10), n % 10)

\* `numb as u32`: the value modulo 2^32, as the pair of its 16-bit halves
RECURSIVE AsU32(_, _)
AsU32(ds, acc) ==
  IF ds = <<>> THEN acc
  ELSE LET lo == acc.lo * 10 + ds[1]
           hi == acc.hi * 10 + (lo \div 65536)
       IN  AsU32(Tail(ds), [hi |-> hi % 65536, lo |-> lo % 65536])

None == [some |-> FALSE]
Some(v) == [some |-> TRUE, v |-> v]

\* std::char::from_u32(numb as u32): None on a surrogate or above U+10FFFF
char_from_u32(numb) ==
  LET w == AsU32(numb, [hi |-> 0, lo |-> 0])
  IN  IF w.hi > 16 \/ (w.hi = 0 /\ w.lo >= 55296 /\ w.lo <= 57343)
      THEN None
      ELSE Some(w.hi * 65536 + w.lo)

(***************************************************************************)
(* Data model (enum Term, enum Oper, struct Rule, struct File)             *)
(***************************************************************************)
Var(name) == [tag |-> "Var", name |-> name]
Dup(nam0, nam1, expr, body) ==
  [tag |-> "Dup", nam0 |-> nam0, nam1 |-> nam1, expr |-> expr, body |-> body]
Let(name, expr, body) == [tag |-> "Let", name |-> name, expr |-> expr, body |-> body]
Lam(name, body) == [tag |-> "Lam", name |-> name, body |-> body]
App(func, argm) == [tag |-> "App", func |-> func, argm |-> argm]
Ctr(name, args) == [tag |-> "Ctr", name |-> name, args |-> args]
Num(numb) == [tag |-> "Num", numb |-> numb]
Op2(oper, val0, val1) == [tag |-> "Op2", oper |-> oper, val0 |-> val0, val1 |-> val1]

Oper == {"Add", "Sub", "Mul", "Div", "Mod", "And", "Or", "Xor",
         "Shl", "Shr", "Lte", "Ltn", "Eql", "Gte", "Gtn", "Neq"}

Rule(lhs, rhs) == [lhs |-> lhs, rhs |-> rhs]

File(rules) == [rules |-> rules]

(***************************************************************************)
(* Stringifier                                                             *)
(***************************************************************************)
\* impl fmt::Display for Oper
fmt_Oper(oper) ==
  CASE oper = "Add" -> <<ch_plus>>       [] oper = "Sub" -> <<ch_minus>>
    [] oper = "Mul" -> <<ch_star>>       [] oper = "Div" -> <<ch_slash>>
    [] oper = "Mod" -> <<ch_percent>>       [] oper = "And" -> <<ch_amp>>
    [] oper = "Or"  -> <<ch_bar>>       [] oper = "Xor" -> <<ch_caret>>
    [] oper = "Shl" -> <<ch_lt, ch_lt>>  [] oper = "Shr" -> <<ch_gt, ch_gt>>
    [] oper = "Lte" -> <<ch_lt, ch_eq>>  [] oper = "Ltn" -> <<ch_lt>>
    [] oper = "Eql" -> <<ch_eq, ch_eq>>  [] oper = "Gte" -> <<ch_gt, ch_eq>>
    [] oper = "Gtn" -> <<ch_gt>>       [] oper = "Neq" -> <<ch_bang, ch_eq>>

\* write!(f, "{}", numb) for a u64
fmt_u64(numb) == SubSeq([i \in 1..Len(numb) |-> 48 + numb[i]], 1, Len(numb))

S_Cons == <<67, 111, 110, 115>>
S_Nil == <<78, 105, 108>>
S_StrCons == <<83, 116, 114, 67, 111, 110, 115>>
S_StrNil == <<83, 116, 114, 78, 105, 108>>

\* the arms of the fmt of Term, over the already formatted children
fmt_Var(name) == name
fmt_Dup(nam0, nam1, expr, body) ==
  <<100, 117, 112, 32>> \o nam0 \o <<ch_space>> \o nam1 \o <<32, 61, 32>>
    \o expr \o <<ch_semi, ch_space>> \o body
fmt_Let(name, expr, body) ==
  <<108, 101, 116, 32>> \o name \o <<32, 61, 32>> \o expr
    \o <<ch_semi, ch_space>> \o body
\* fmt_Lam without the space between the binder and the body
fmt_Lam_glued(name, body) == <<ch_lambda>> \o name \o body
fmt_Lam(name, body) == <<ch_lambda>> \o name \o <<ch_space>> \o body

\* args.iter().map(..).collect::<Vec<String>>().join(" ")
RECURSIVE JoinSp(_)
JoinSp(ts) ==
  IF ts = <<>> THEN <<>>
  ELSE IF Len(ts) = 1 THEN ts[1]
  ELSE ts[1] \o <<ch_space>> \o JoinSp(Tail(ts))

\* "({} {})" of the spine's head and its joined arguments
fmt_App(expr, args) ==
  <<ch_lparen>> \o expr \o <<ch_space>> \o JoinSp(args) \o <<ch_rparen>>

\* args.iter().map(|x| format!(" {}", x)).collect::<String>()
RECURSIVE SpEach(_)
SpEach(ts) == IF ts = <<>> THEN <<>> ELSE <<ch_space>> \o ts[1] \o SpEach(Tail(ts))

\* "({}{})" of a constructor's name and its arguments
fmt_Ctr(name, args) == <<ch_lparen>> \o name \o SpEach(args) \o <<ch_rparen>>
fmt_Num(numb) == fmt_u64(numb)
fmt_Op2(oper, val0, val1) ==
  <<ch_lparen>> \o fmt_Oper(oper) \o <<ch_space>> \o val0 \o <<ch_space>> \o val1
    \o <<ch_rparen>>

\* the while-let loop of the App arm: the head of the spine, and its
\* arguments in source order (pushed innermost last, then reversed)
RECURSIVE SpineHead(_), SpineArgs(_)
SpineHead(t) == IF t.tag = "App" THEN SpineHead(t.func) ELSE t
SpineArgs(t) == IF t.tag = "App" THEN Append(SpineArgs(t.func), t.argm) ELSE <<>>

RECURSIVE fmt(_), lst_go(_, _, _), str_go(_, _)

\* lst_sugar's go: [some, text] is the Option<()> and the buffer it leaves
lst_go(term, text, fst) ==
  IF term.tag = "Ctr" /\ term.name = S_Cons /\ Len(term.args) = 2
  THEN LET t1 == IF ~fst THEN text \o <<ch_comma, ch_space>> ELSE text
           t2 == t1 \o fmt(term.args[1])
       IN  lst_go(term.args[2], t2, FALSE)
  ELSE IF term.tag = "Ctr" /\ term.name = S_Nil /\ term.args = <<>>
  THEN [some |-> TRUE, text |-> text]
  ELSE [some |-> FALSE, text |-> text]

lst_sugar(term) ==
  LET r == lst_go(term, <<ch_lbrack>>, TRUE)
  IN  IF r.some THEN Some(r.text \o <<ch_rbrack>>) ELSE None

\* str_sugar's go
str_go(term, text) ==
  IF term.tag = "Ctr" /\ term.name = S_StrCons /\ Len(term.args) = 2
  THEN IF term.args[1].tag = "Num"
       THEN LET c == char_from_u32(term.args[1].numb)
            IN  IF ~c.some THEN [some |-> FALSE, text |-> text]
                ELSE LET r == str_go(term.args[2], Append(text, c.v))
                     IN  IF r.some THEN [some |-> TRUE, text |-> r.text] ELSE r
       ELSE [some |-> TRUE, text |-> text]
  ELSE IF term.tag = "Ctr" /\ term.name = S_StrNil /\ term.args = <<>>
  THEN [some |-> TRUE, text |-> text]
  ELSE [some |-> FALSE, text |-> text]

str_sugar(term) ==
  LET r == str_go(term, <<ch_quote>>)
  IN  IF r.some THEN Some(r.text \o <<ch_quote>>) ELSE None

\* impl fmt::Display for Term
fmt(term) ==
  CASE term.tag = "Var" -> fmt_Var(term.name)
    [] term.tag = "Dup" ->
         fmt_Dup(term.nam0, term.nam1, fmt(term.expr), fmt(term.body))
    [] term.tag = "Let" -> fmt_Let(term.name, fmt(term.expr), fmt(term.body))
    [] term.tag = "Lam" -> fmt_Lam(term.name, fmt(term.body))
    [] term.tag = "App" ->
         LET args == SpineArgs(term)
         IN  fmt_App(fmt(SpineHead(term)), [i \in 1..Len(args) |-> fmt(args[i])])
    [] term.tag = "Ctr" ->
         LET s == str_sugar(term)
         IN  IF s.some THEN s.v
             ELSE LET l == lst_sugar(term)
                  IN  IF l.some THEN l.v
                      ELSE fmt_Ctr(term.name,
                                   [i \in 1..Len(term.args) |-> fmt(term.args[i])])
    [] term.tag = "Num" -> fmt_Num(term.numb)
    [] term.tag = "Op2" -> fmt_Op2(term.oper, fmt(term.val0), fmt(term.val1))

\* impl fmt::Display for Rule
fmt_Rule(rule) == fmt(rule.lhs) \o <<32, 61, 32>> \o fmt(rule.rhs)

\* impl fmt::Display for File: the rules joined by "\n"
RECURSIVE fmt_File(_)
fmt_File(rules) ==
  IF rules = <<>> THEN <<>>
  ELSE IF Len(rules) = 1 THEN fmt_Rule(rules[1])
  ELSE fmt_Rule(rules[1]) \o <<ch_nl>> \o fmt_File(Tail(rules))

(***************************************************************************)
(* Parser combinators (crate::parser)                                      *)
(***************************************************************************)
Ok(idx, val) == [tag |-> "Ok", idx |-> idx, val |-> val]
Err(exp, idx) == [tag |-> "Err", exp |-> exp, idx |-> idx]
Panic == [tag |-> "Panic"]
Hang == [tag |-> "Hang"]

\* expected(name, size, state): the error "expected <name>" at the offset
expected(name, idx) == Err(name, idx)

\* head(state): the character at the offset, None at the end of the text
head(code, i) == IF i < Len(code) THEN Some(code[i + 1]) ELSE None

\* tail(state): the state one character further
tail(code, i) == IF i < Len(code) THEN i + 1 ELSE i

is_space(chr) == chr \in {ch_space, ch_nl, ch_tab, ch_cr}

\* the offset after the longest run, from offset i, of characters that
\* satisfy test
ScanWhile(code, i, test(_)) ==
  CHOOSE k \in i..Len(code) :
    /\ k = Len(code) \/ ~test(code[k + 1])
    /\ \A j \in (i + 1)..k : test(code[j])

EndOfLine(code, i) == ScanWhile(code, i, LAMBDA chr : chr # ch_nl)

\* skip(state): the offset of the next significant character, after the
\* white space and the "//" comments
RECURSIVE skip(_, _)
skip(code, i) ==
  IF i < Len(code) /\ is_space(code[i + 1]) THEN skip(code, i + 1)
  ELSE IF i + 1 < Len(code) /\ code[i + 1] = ch_slash /\ code[i + 2] = ch_slash
       THEN skip(code, EndOfLine(code, i + 2))
       ELSE i

\* get_char(state): the next significant character, consumed ('\0' and
\* nothing consumed at the end of the text)
get_char(code, i) ==
  LET j == skip(code, i)
  IN  IF j < Len(code) THEN Ok(j + 1, code[j + 1]) ELSE Ok(j, ch_nul)

equal_at(pat, code, i) ==
  /\ i + Len(pat) <= Len(code)
  /\ \A k \in 1..Len(pat) : code[i + k] = pat[k]

\* text(pat, state): match-literal
text(pat, code, i) ==
  LET j == skip(code, i)
  IN  IF equal_at(pat, code, j) THEN Ok(j + Len(pat), TRUE) ELSE Ok(i, FALSE)

\* consume(pat, state): require-literal
consume(pat, label, code, i) ==
  LET r == text(pat, code, i)
  IN  IF r.val THEN Ok(r.idx, TRUE) ELSE expected(label, i)

\* done(state)
done(code, i) == LET j == skip(code, i) IN Ok(j, j = Len(code))

is_letter(chr) ==
  \/ chr >= ch_a /\ chr <= ch_z
  \/ chr >= ch_A /\ chr <= ch_Z
  \/ chr >= ch_0 /\ chr <= ch_9
  \/ chr = ch_underscore
  \/ chr = ch_dot

NameEnd(code, i) == ScanWhile(code, i, is_letter)

\* name(state): the lenient read-identifier
name(code, i) ==
  LET j == skip(code, i)
      k == NameEnd(code, j)
  IN  Ok(k, SubSeq(code, j + 1, k))

\* name1(state): the strict read-identifier
name1(code, i) ==
  LET r == name(code, i)
  IN  IF r.val # <<>> THEN r ELSE expected("name", r.idx)

\* guard(head, body, state), as applied to the answers of head and body at
\* the first significant character from state: Some(body's value) when
\* head accepts, None and the state as it was when it does not
guard(matched, body, i) ==
  IF matched.tag # "Ok" THEN matched
  ELSE IF matched.val
       THEN IF body.tag = "Ok" THEN Ok(body.idx, Some(body.val)) ELSE body
       ELSE Ok(i, None)

\* the ? operator on an Answer: the rest of the function, rest, runs on an
\* Ok answer; any other answer is returned at once
Try(r, rest(_)) == IF r.tag # "Ok" THEN r ELSE rest(r)

\* grammar(name, choices, state), as applied to the answers the choices
\* give from state: the answer of the first choice, in order, that is an
\* error or has a value; "expected name" when every choice has none
Decided(r) == r.tag # "Ok" \/ r.val.some

First(choices) ==
  CHOOSE k \in 1..Len(choices) :
    Decided(choices[k]) /\ \A j \in 1..(k - 1) : ~Decided(choices[j])

value_of(r) == Try(r, LAMBDA a : Ok(a.idx, a.val.v))

grammar(label, choices, state) ==
  IF \A k \in 1..Len(choices) : ~Decided(choices[k]) THEN expected(label, state)
  ELSE value_of(choices[First(choices)])

\* maybe(parser, state) of a text parser: its answer, the value dropped
maybe(r) == IF r.tag = "Ok" THEN Ok(r.idx, TRUE) ELSE r

(***************************************************************************)
(* Parser (the grammar of language.rs)                                     *)
(***************************************************************************)
S_let == <<108, 101, 116, 32>>
S_dup == <<100, 117, 112, 32>>
S_lparen == <<ch_lparen>>
S_rparen == <<ch_rparen>>
S_eq == <<ch_eq>>
S_semi == <<ch_semi>>
S_lambda == <<ch_lambda>>
S_at == <<ch_at>>
S_apos == <<ch_apos>>
S_lbrack == <<ch_lbrack>>
S_rbrack == <<ch_rbrack>>
S_comma == <<ch_comma>>

RECURSIVE parse_term(_, _), TermChoices(_, _)
RECURSIVE parse_let(_, _), let_body(_, _), parse_dup(_, _), dup_body(_, _)
RECURSIVE parse_lam(_, _), lam_body(_, _), parse_app(_, _), app_body(_, _), list_app(_, _, _)
RECURSIVE parse_ctr(_, _), ctr_body(_, _), until_ctr(_, _, _)
RECURSIVE parse_op2(_, _), op2_body(_, _)
RECURSIVE parse_lst_sugar(_, _), lst_body(_, _), until_lst(_, _, _)

\* the body of parse_let, from the first significant character
let_body(code, state) ==
  Try(consume(S_let, "let ", code, state), LAMBDA r1 :
  Try(name1(code, r1.idx), LAMBDA r2 :
  Try(consume(S_eq, "=", code, r2.idx), LAMBDA r3 :
  Try(parse_term(code, r3.idx), LAMBDA r4 :
  Try(text(S_semi, code, r4.idx), LAMBDA r5 :
  Try(parse_term(code, r5.idx), LAMBDA r6 :
  Ok(r6.idx, Let(r2.val, r4.val, r6.val))))))))

parse_let(code, i) ==
  LET state == skip(code, i)
  IN  guard(text(S_let, code, state), let_body(code, state), i)

\* the body of parse_dup
dup_body(code, state) ==
  Try(consume(S_dup, "dup ", code, state), LAMBDA r1 :
  Try(name1(code, r1.idx), LAMBDA r2 :
  Try(name1(code, r2.idx), LAMBDA r2b :
  Try(consume(S_eq, "=", code, r2b.idx), LAMBDA r3 :
  Try(parse_term(code, r3.idx), LAMBDA r4 :
  Try(text(S_semi, code, r4.idx), LAMBDA r5 :
  Try(parse_term(code, r5.idx), LAMBDA r6 :
  Ok(r6.idx, Dup(r2.val, r2b.val, r4.val, r6.val)))))))))

parse_dup(code, i) ==
  LET state == skip(code, i)
  IN  guard(text(S_dup, code, state), dup_body(code, state), i)

\* parse_symbol of parse_lam: parser_or of the two binder symbols
parse_symbol(code, state) ==
  LET r1 == text(S_lambda, code, state)
  IN  IF r1.val THEN r1 ELSE text(S_at, code, state)

lam_body(code, state) ==
  Try(parse_symbol(code, state), LAMBDA r1 :
  Try(name(code, r1.idx), LAMBDA r2 :
  Try(parse_term(code, r2.idx), LAMBDA r3 :
  Ok(r3.idx, Lam(r2.val, r3.val)))))

parse_lam(code, i) ==
  LET state == skip(code, i)
  IN  guard(parse_symbol(code, state), lam_body(code, state), i)

\* the closure parse_app hands to list: the left fold of the elements
\* into App nodes, Num 0 when there are none
RECURSIVE reduce_App(_, _)
reduce_App(acc, rest) ==
  IF rest = <<>> THEN acc ELSE reduce_App(App(acc, Head(rest)), Tail(rest))

\* make_app folding from the right: (t1 (t2 (... tn)))
RECURSIVE reduce_App_right(_)
reduce_App_right(args) ==
  IF Len(args) = 1 THEN args[1]
  ELSE App(Head(args), reduce_App_right(Tail(args)))

make_app_right(args) ==
  IF args # <<>> THEN reduce_App_right(args) ELSE Num(<<0>>)

make_app(args) ==
  IF args # <<>> THEN reduce_App(Head(args), Tail(args)) ELSE Num(<<0>>)

\* the loop of parser::list with the parsers parse_app gives it: close ")",
\* separator "", element parse_term
list_app(code, state, elems) ==
  Try(text(S_rparen, code, state), LAMBDA close :
  Try(text(<<>>, code, close.idx), LAMBDA sep :
  IF close.val THEN Ok(sep.idx, make_app(elems)) ELSE
  Try(parse_term(code, sep.idx), LAMBDA e :
  IF e.idx = state THEN Hang
  ELSE list_app(code, e.idx, Append(elems, e.val)))))

app_body(code, state) ==
  Try(text(S_lparen, code, state), LAMBDA open :
  list_app(code, open.idx, <<>>))

parse_app(code, i) ==
  LET state == skip(code, i)
  IN  guard(text(S_lparen, code, state), app_body(code, state), i)

\* the loop of parser::until with delimiter ")" and element parse_term
until_ctr(code, state, result) ==
  Try(text(S_rparen, code, state), LAMBDA d :
  IF d.val THEN Ok(d.idx, result) ELSE
  Try(parse_term(code, d.idx), LAMBDA e :
  IF e.idx = state THEN Hang
  ELSE until_ctr(code, e.idx, Append(result, e.val))))

is_upper(chr) == chr >= ch_A /\ chr <= ch_Z

ctr_head(code, state) ==
  Try(text(S_lparen, code, state), LAMBDA r1 :
  Try(get_char(code, r1.idx), LAMBDA r2 :
  Ok(r2.idx, is_upper(r2.val))))

ctr_body(code, state) ==
  Try(text(S_lparen, code, state), LAMBDA open :
  Try(name1(code, open.idx), LAMBDA r2 :
  Try(IF open.val THEN until_ctr(code, r2.idx, <<>>) ELSE Ok(r2.idx, <<>>), LAMBDA r3 :
  Ok(r3.idx, Ctr(r2.val, r3.val)))))

parse_ctr(code, i) ==
  LET state == skip(code, i)
  IN  guard(ctr_head(code, state), ctr_body(code, state), i)

is_digit(chr) == chr >= ch_0 /\ chr <= ch_9

\* numb.parse::<u64>(): Some(value) for a run of decimal digits denoting at
\* most U64Max, None (the Err that unwrap panics on) otherwise
str_parse_u64(numb) ==
  IF numb = <<>> \/ \E k \in 1..Len(numb) : ~is_digit(numb[k]) THEN None
  ELSE LET ds == StripZeros([k \in 1..Len(numb) |-> numb[k] - 48])
       IN  IF DigitsLeq(ds, U64Max) THEN Some(ds) ELSE None

u60_head(code, state) ==
  Try(get_char(code, state), LAMBDA r : Ok(r.idx, is_digit(r.val)))

\* Some(value).unwrap() is the value, None.unwrap() panics
unwrap_Num(n, state) == IF n.some THEN Ok(state, Num(n.v)) ELSE Panic

u60_body(code, state) ==
  Try(name1(code, state), LAMBDA r :
  IF r.val # <<>> THEN unwrap_Num(str_parse_u64(r.val), r.idx)
  ELSE Ok(r.idx, Num(<<0>>)))

parse_u60(code, i) ==
  LET state == skip(code, i)
  IN  guard(u60_head(code, state), u60_body(code, state), i)

is_op_char(chr) ==
  chr \in {ch_plus, ch_minus, ch_star, ch_slash, ch_percent, ch_amp, ch_bar,
           ch_caret, ch_lt, ch_gt, ch_eq, ch_bang}

\* op(symbol, oper): Some(oper) when the symbol is next, None when not
op(symbol, oper, code, state) ==
  Try(text(symbol, code, state), LAMBDA r :
  Ok(r.idx, IF r.val THEN Some(oper) ELSE None))

\* the alternatives with each one-character symbol ahead of the
\* two-character symbols it is a prefix of
OperChoices_prefix_first(code, state) ==
  << op(<<ch_plus>>, "Add", code, state), op(<<ch_minus>>, "Sub", code, state),
     op(<<ch_star>>, "Mul", code, state), op(<<ch_slash>>, "Div", code, state),
     op(<<ch_percent>>, "Mod", code, state), op(<<ch_amp>>, "And", code, state),
     op(<<ch_bar>>, "Or", code, state), op(<<ch_caret>>, "Xor", code, state),
     op(<<ch_lt>>, "Ltn", code, state), op(<<ch_gt>>, "Gtn", code, state),
     op(<<ch_lt, ch_lt>>, "Shl", code, state), op(<<ch_gt, ch_gt>>, "Shr", code, state),
     op(<<ch_lt, ch_eq>>, "Lte", code, state), op(<<ch_eq, ch_eq>>, "Eql", code, state),
     op(<<ch_gt, ch_eq>>, "Gte", code, state), op(<<ch_bang, ch_eq>>, "Neq", code, state) >>

\* the alternatives of parse_oper, in the order of the source
OperChoices(code, state) ==
  << op(<<ch_plus>>, "Add", code, state), op(<<ch_minus>>, "Sub", code, state),
     op(<<ch_star>>, "Mul", code, state), op(<<ch_slash>>, "Div", code, state),
     op(<<ch_percent>>, "Mod", code, state), op(<<ch_amp>>, "And", code, state),
     op(<<ch_bar>>, "Or", code, state), op(<<ch_caret>>, "Xor", code, state),
     op(<<ch_lt, ch_lt>>, "Shl", code, state), op(<<ch_gt, ch_gt>>, "Shr", code, state),
     op(<<ch_lt, ch_eq>>, "Lte", code, state), op(<<ch_lt>>, "Ltn", code, state),
     op(<<ch_eq, ch_eq>>, "Eql", code, state), op(<<ch_gt, ch_eq>>, "Gte", code, state),
     op(<<ch_gt>>, "Gtn", code, state), op(<<ch_bang, ch_eq>>, "Neq", code, state) >>

parse_oper(code, state) == grammar("Oper", OperChoices(code, state), state)

op2_head(code, state) ==
  Try(text(S_lparen, code, state), LAMBDA open :
  Try(get_char(code, open.idx), LAMBDA r2 :
  Ok(r2.idx, open.val /\ is_op_char(r2.val))))

op2_body(code, state) ==
  Try(text(S_lparen, code, state), LAMBDA r1 :
  Try(parse_oper(code, r1.idx), LAMBDA r2 :
  Try(parse_term(code, r2.idx), LAMBDA r3 :
  Try(parse_term(code, r3.idx), LAMBDA r4 :
  Try(text(S_rparen, code, r4.idx), LAMBDA r5 :
  Ok(r5.idx, Op2(r2.val, r3.val, r4.val)))))))

parse_op2(code, i) ==
  LET state == skip(code, i)
  IN  guard(op2_head(code, state), op2_body(code, state), i)

var_head(code, state) ==
  Try(get_char(code, state), LAMBDA r :
  Ok(r.idx, (r.val >= ch_a /\ r.val <= ch_z)
              \/ r.val = ch_underscore \/ r.val = ch_dollar))

var_body(code, state) ==
  Try(name(code, state), LAMBDA r : Ok(r.idx, Var(r.val)))

parse_var(code, i) ==
  LET state == skip(code, i)
  IN  guard(var_head(code, state), var_body(code, state), i)

chr_head(code, state) ==
  Try(get_char(code, state), LAMBDA r : Ok(r.idx, r.val = ch_apos))

chr_body(code, state) ==
  Try(text(S_apos, code, state), LAMBDA r1 :
  IF head(code, r1.idx).some
  THEN Try(text(S_apos, code, tail(code, r1.idx)), LAMBDA r2 :
       Ok(r2.idx, Num(U64OfNat(head(code, r1.idx).v))))
  ELSE expected("character", r1.idx))

parse_chr_sugar(code, i) ==
  LET state == skip(code, i)
  IN  guard(chr_head(code, state), chr_body(code, state), i)

str_head(code, state) ==
  Try(get_char(code, state), LAMBDA r :
  Ok(r.idx, r.val = ch_quote \/ r.val = ch_backtick))

\* the loop of parse_str_sugar: with no character left, an iteration
\* changes nothing and the loop has no other exit
RECURSIVE str_loop(_, _, _, _)
str_loop(code, state, delim, chars) ==
  LET next == head(code, state)
  IN  IF next.some
      THEN IF next.v = delim \/ next.v = ch_nul
           THEN Ok(tail(code, state), chars)
           ELSE str_loop(code, tail(code, state), delim, Append(chars, next.v))
      ELSE Hang

\* chars.iter().rfold(StrNil, ..)
RECURSIVE rfold_StrCons(_)
rfold_StrCons(chars) ==
  IF chars = <<>> THEN Ctr(S_StrNil, <<>>)
  ELSE Ctr(S_StrCons, <<Num(U64OfNat(Head(chars))), rfold_StrCons(Tail(chars))>>)

\* parser::head(state).unwrap_or('\0')
head_or_nul(code, state) ==
  IF head(code, state).some THEN head(code, state).v ELSE ch_nul

str_body(code, state) ==
  Try(str_loop(code, tail(code, state), head_or_nul(code, state), <<>>), LAMBDA r :
  Ok(r.idx, rfold_StrCons(r.val)))

parse_str_sugar(code, i) ==
  LET state == skip(code, i)
  IN  guard(str_head(code, state), str_body(code, state), i)

lst_head(code, state) ==
  Try(get_char(code, state), LAMBDA r : Ok(r.idx, r.val = ch_lbrack))

\* the loop of parser::until with delimiter "]" and, as element, parse_term
\* followed by an optional ","
until_lst(code, state, result) ==
  Try(text(S_rbrack, code, state), LAMBDA d :
  IF d.val THEN Ok(d.idx, result) ELSE
  Try(parse_term(code, d.idx), LAMBDA e :
  Try(maybe(text(S_comma, code, e.idx)), LAMBDA m :
  IF m.idx = state THEN Hang
  ELSE until_lst(code, m.idx, Append(result, e.val)))))

\* the fold taken from the front: the elements end up in reverse order
RECURSIVE fold_Cons(_, _)
fold_Cons(acc, elems) ==
  IF elems = <<>> THEN acc
  ELSE fold_Cons(Ctr(S_Cons, <<Head(elems), acc>>), Tail(elems))

fold_Cons_front(elems) == fold_Cons(Ctr(S_Nil, <<>>), elems)

\* elems.iter().rfold(Nil, ..)
RECURSIVE rfold_Cons(_)
rfold_Cons(elems) ==
  IF elems = <<>> THEN Ctr(S_Nil, <<>>)
  ELSE Ctr(S_Cons, <<Head(elems), rfold_Cons(Tail(elems))>>)

lst_body(code, state) ==
  Try(text(S_lbrack, code, state), LAMBDA r1 :
  Try(until_lst(code, r1.idx, <<>>), LAMBDA r2 :
  Ok(r2.idx, rfold_Cons(r2.val))))

parse_lst_sugar(code, i) ==
  LET state == skip(code, i)
  IN  guard(lst_head(code, state), lst_body(code, state), i)

\* the alternatives of parse_term, in the order of the source
TermChoices(code, state) ==
  << parse_let(code, state), parse_dup(code, state), parse_lam(code, state),
     parse_ctr(code, state), parse_op2(code, state), parse_app(code, state),
     parse_u60(code, state), parse_chr_sugar(code, state),
     parse_str_sugar(code, state), parse_lst_sugar(code, state),
     parse_var(code, state), Ok(state, None) >>

parse_term(code, state) == grammar("Term", TermChoices(code, state), state)

rule_body(code, state) ==
  Try(parse_term(code, state), LAMBDA r1 :
  Try(consume(S_eq, "=", code, r1.idx), LAMBDA r2 :
  Try(parse_term(code, r2.idx), LAMBDA r3 :
  Ok(r3.idx, Rule(r1.val, r3.val)))))

parse_rule(code, i) ==
  LET state == skip(code, i)
  IN  guard(text(<<>>, code, state), rule_body(code, state), i)

\* the loop of parse_file
RECURSIVE file_loop(_, _, _)
file_loop(code, state, rules) ==
  Try(done(code, state), LAMBDA d :
  IF d.val THEN Ok(state, File(rules)) ELSE
  Try(parse_rule(code, d.idx), LAMBDA r :
  IF ~r.val.some THEN expected("definition", state)
  ELSE IF r.idx = state THEN Hang
  ELSE file_loop(code, r.idx, Append(rules, r.val.v))))

parse_file(code, state) == file_loop(code, state, <<>>)

\* parser::read(parser, code): the parser's value from offset 0, or its
\* error
read(r) == IF r.tag = "Ok" THEN [tag |-> "Ok", val |-> r.val] ELSE r

read_term(code) == read(parse_term(code, 0))
read_file(code) == read(parse_file(code, 0))
read_rule(code) == read(parse_rule(code, 0))

(***************************************************************************)
(* Bounds of the inputs                                                    *)
(***************************************************************************)
MaxDepth == 2
MaxChain == 2
MaxLen == 3
MaxArgs == 3
MaxChars == 3
MaxRules == 2

Seqs(S, n) == UNION {[1..k -> S] : k \in 0..n}

(***************************************************************************)
(* The terms a client builds and prints                                    *)
(***************************************************************************)
\* the names a client uses
Names ==
  [x |-> Txt(<<"x">>), y |-> Txt(<<"y">>), f |-> Txt(<<"f">>),
   Foo |-> Txt(<<"F","o","o">>), X |-> Txt(<<"X">>),
   let |-> Txt(<<"l","e","t">>), dup |-> Txt(<<"d","u","p">>),
   foo |-> Txt(<<"f","o","o">>)]

PlainAtoms ==
  {Var(Names.x), Num(<<7>>), Num(U64Max), Ctr(Names.Foo, <<>>),
   Var(Names.X), Var(<<>>), Var(Names.let)}

PlainWrap(t) ==
  {Lam(Names.x, t), Lam(<<>>, t),
   App(t, Var(Names.y)), App(Num(<<7>>), t),
   Let(Names.y, Num(<<7>>), t),
   Dup(Names.x, Names.y, t, Var(Names.x)),
   Op2("Shl", t, Var(Names.y)),
   Ctr(Names.Foo, <<Var(Names.y), t, Num(<<7>>)>>),
   Ctr(Names.foo, <<t>>)}

RECURSIVE PlainTerms(_)
PlainTerms(d) ==
  IF d = 0 THEN PlainAtoms
  ELSE PlainAtoms \cup UNION {PlainWrap(t) : t \in PlainTerms(d - 1)}

\* chains of the four sugar names, well formed and not
ChainEnds ==
  {Ctr(S_Nil, <<>>), Ctr(S_StrNil, <<>>), Var(Names.x),
   Ctr(S_Nil, <<Var(Names.x)>>), Ctr(S_StrNil, <<Var(Names.x)>>)}

ChainHeads ==
  {Num(<<9,7>>), Var(Names.x), Num(<<4,2,9,4,9,6,7,3,9,3>>), Num(<<5,5,2,9,6>>)}

ChainWrap(t) ==
  {Ctr(S_StrCons, <<h, t>>) : h \in ChainHeads}
    \cup {Ctr(S_Cons, <<Var(Names.x), t>>)}
    \cup {Ctr(nm, <<Num(<<9,7>>), t, Var(Names.x)>>) : nm \in {S_Cons, S_StrCons}}
    \cup {Ctr(nm, <<t>>) : nm \in {S_Cons, S_StrCons}}

RECURSIVE ChainTerms(_)
ChainTerms(d) ==
  IF d = 0 THEN ChainEnds
  ELSE ChainEnds \cup UNION {ChainWrap(t) : t \in ChainTerms(d - 1)}

Terms == PlainTerms(MaxDepth) \cup ChainTerms(MaxChain)

(***************************************************************************)
(* The texts a client reads                                                *)
(***************************************************************************)
\* terms in the form the grammar itself produces
Elems ==
  {Var(Names.x), Num(<<1,2>>), Lam(Names.x, Var(Names.x)), App(Var(Names.f), Var(Names.x)),
   Ctr(Names.Foo, <<Var(Names.x)>>)}

Operands ==
  Elems \cup {Let(Names.x, Num(<<1>>), Var(Names.x)), Op2("Sub", Var(Names.x), Num(<<1>>))}

\* every text of at most MaxLen characters over Alphabet
Alphabet ==
  {OrdTab["("], OrdTab[")"], OrdTab["["], OrdTab["$"], OrdTab["x"], OrdTab["1"], OrdTab["quote"],
   OrdTab[" "], OrdTab["F"]}

ShortTexts == Seqs(Alphabet, MaxLen)

\* digit-led tokens around the largest u64
NumTexts ==
  {fmt_u64(U64Max), fmt_u64(<<1,8,4,4,6,7,4,4,0,7,3,7,0,9,5,5,1,6,1,6>>),
   Txt(<<"0","0","7">>), Txt(<<"1","a">>), Txt(<<"1","_","0">>), Txt(<<"1",".","5">>)}

\* "(s a b)" for an operator symbol s and the texts of two operands
OpText(symbol, a, b) ==
  Txt(<<"(">>) \o symbol \o Txt(<<" ">>) \o a \o Txt(<<" ">>) \o b \o Txt(<<")">>)

\* the symbol each operator is written with (the Display of Oper)
OpCases ==
  {[kind |-> "op2", oper |-> o, a |-> a, b |-> b,
    code |-> OpText(fmt_Oper(o), fmt(a), fmt(b))] :
     o \in Oper, a \in Operands, b \in Operands}

\* "(t1 ... tn)"
RECURSIVE JoinWith(_, _)
JoinWith(ts, sep) ==
  IF ts = <<>> THEN <<>>
  ELSE IF Len(ts) = 1 THEN ts[1]
  ELSE ts[1] \o sep \o JoinWith(Tail(ts), sep)

FmtAll(ts) == [i \in 1..Len(ts) |-> fmt(ts[i])]

AppCases ==
  {[kind |-> "app", elems |-> es,
    code |-> Txt(<<"(">>) \o JoinWith(FmtAll(es), Txt(<<" ">>)) \o Txt(<<")">>)] :
     es \in Seqs(Elems, MaxArgs)}

\* "[e1,...,en]"
LstCases ==
  {[kind |-> "lst", elems |-> es,
    code |-> Txt(<<"[">>) \o JoinWith(FmtAll(es), Txt(<<",">>)) \o Txt(<<"]">>)] :
     es \in Seqs(Elems, MaxArgs)}

\* a double-quoted run of characters other than the double quote
StrChars == {OrdTab["a"], OrdTab["b"], OrdTab[" "], OrdTab["backtick"], OrdTab["nul"]}

StrCases ==
  {[kind |-> "str", chars |-> cs,
    code |-> Txt(<<"quote">>) \o cs \o Txt(<<"quote">>)] :
     cs \in Seqs(StrChars, MaxChars)}

\* let/dup texts: the keyword, then each part of the full form present or not
Opt(present, part) == IF present THEN part ELSE <<>>

LetCases ==
  {[kind |-> "let", has |-> h,
    code |-> Txt(<<"l","e","t"," ">>) \o Opt(h.name, Txt(<<"x"," ">>))
               \o Opt(h.eq, Txt(<<"="," ">>)) \o Opt(h.expr, Txt(<<"1">>))
               \o Opt(h.semi, Txt(<<";">>)) \o Opt(h.body, Txt(<<" ","y">>))] :
     h \in [name : BOOLEAN, eq : BOOLEAN, expr : BOOLEAN, semi : BOOLEAN,
            body : BOOLEAN]}

DupCases ==
  {[kind |-> "dup", has |-> h,
    code |-> Txt(<<"d","u","p"," ">>) \o Opt(h.name, Txt(<<"a"," ","b"," ">>))
               \o Opt(h.eq, Txt(<<"="," ">>)) \o Opt(h.expr, Txt(<<"1">>))
               \o Opt(h.semi, Txt(<<";">>)) \o Opt(h.body, Txt(<<" ","y">>))] :
     h \in [name : BOOLEAN, eq : BOOLEAN, expr : BOOLEAN, semi : BOOLEAN,
            body : BOOLEAN]}

TextCases ==
  {[kind |-> "text", code |-> c] : c \in ShortTexts \cup NumTexts}

ReadTermCases ==
  TextCases \cup OpCases \cup AppCases \cup LstCases \cup StrCases
    \cup LetCases \cup DupCases

\* files: well-formed rules, one a line, then possibly a line that is no
\* definition
Rules ==
  {Rule(Var(Names.f), Num(<<1>>)),
   Rule(Ctr(Names.Foo, <<Var(Names.x)>>), App(Var(Names.f), Var(Names.x))),
   Rule(App(Var(Names.f), Var(Names.x)), Lam(Names.y, Var(Names.y)))}

Garbage == {<<>>, Txt(<<"g","a","r","b","a","g","e">>), Txt(<<"%","%">>)}

FileText(rules, garbage) ==
  IF rules = <<>> THEN garbage
  ELSE fmt_File(rules) \o Opt(garbage # <<>>, Txt(<<"nl">>) \o garbage)

FileCases ==
  {[kind |-> "file", rules |-> rs, garbage |-> g, code |-> FileText(rs, g)] :
     rs \in Seqs(Rules, MaxRules), g \in Garbage}

RuleCases ==
  {[kind |-> "rule", rule |-> r, code |-> fmt_Rule(r)] : r \in Rules}
    \cup {[kind |-> "text", code |-> c] : c \in Seqs(Alphabet, 2)}

(***************************************************************************)
(* The state machine: a client prints terms and reads texts               *)
(***************************************************************************)
VARIABLES
  pc,      \* "idle", "printed", "running", "returned" or "aborted"
  call,    \* the function called last
  given,   \* what the client passed: the term printed, or how it composed
           \* the text it reads
  code,    \* the text: the printer's output or the reader's input
  answer,  \* what the call in progress comes to: Ok, Err, Panic or Hang
  result,  \* the value returned to the caller
  spin     \* flips at each iteration of a loop that never exits

vars == <<pc, call, given, code, answer, result, spin>>

NoResult == [tag |-> "None"]
NoGiven == [kind |-> "none"]

Init ==
  /\ pc = "idle"
  /\ call = "none"
  /\ given = NoGiven
  /\ code = <<>>
  /\ answer = NoResult
  /\ result = NoResult
  /\ spin = FALSE

\* format!("{}", term)
Fmt ==
  /\ pc = "idle"
  /\ \E t \in Terms :
       /\ given' = [kind |-> "term", term |-> t]
       /\ code' = fmt(t)
  /\ pc' = "printed"
  /\ call' = "fmt"
  /\ UNCHANGED <<answer, result, spin>>

\* read_term on the text just printed
CallReadBack ==
  /\ pc = "printed"
  /\ pc' = "running"
  /\ call' = "read_term"
  /\ answer' = read_term(code)
  /\ UNCHANGED <<given, code, result, spin>>

\* read_term(code)
CallReadTerm ==
  /\ pc = "idle"
  /\ \E c \in ReadTermCases :
       /\ given' = c
       /\ code' = c.code
       /\ answer' = read_term(c.code)
  /\ pc' = "running"
  /\ call' = "read_term"
  /\ UNCHANGED <<result, spin>>

\* parse_term(State { code, index: 0 })
CallParseTerm ==
  /\ pc = "idle"
  /\ \E c \in TextCases :
       /\ given' = c
       /\ code' = c.code
       /\ answer' = parse_term(c.code, 0)
  /\ pc' = "running"
  /\ call' = "parse_term"
  /\ UNCHANGED <<result, spin>>

\* read_rule(code)
CallReadRule ==
  /\ pc = "idle"
  /\ \E c \in RuleCases :
       /\ given' = c
       /\ code' = c.code
       /\ answer' = read_rule(c.code)
  /\ pc' = "running"
  /\ call' = "read_rule"
  /\ UNCHANGED <<result, spin>>

\* read_file(code)
CallReadFile ==
  /\ pc = "idle"
  /\ \E c \in FileCases :
       /\ given' = c
       /\ code' = c.code
       /\ answer' = read_file(c.code)
  /\ pc' = "running"
  /\ call' = "read_file"
  /\ UNCHANGED <<result, spin>>

\* the call returns Ok or Err to its caller
Return ==
  /\ pc = "running"
  /\ answer.tag \in {"Ok", "Err"}
  /\ result' = answer
  /\ pc' = "returned"
  /\ UNCHANGED <<call, given, code, answer, spin>>

\* the call panics
Abort ==
  /\ pc = "running"
  /\ answer.tag = "Panic"
  /\ pc' = "aborted"
  /\ UNCHANGED <<call, given, code, answer, result, spin>>

\* the call is in a loop that has no exit: one more iteration
Spin ==
  /\ pc = "running"
  /\ answer.tag = "Hang"
  /\ spin' = ~spin
  /\ UNCHANGED <<pc, call, given, code, answer, result>>

\* the client drops what it holds and starts over
Reset ==
  /\ pc \in {"printed", "returned", "aborted"}
  /\ pc' = "idle"
  /\ call' = "none"
  /\ given' = NoGiven
  /\ code' = <<>>
  /\ answer' = NoResult
  /\ result' = NoResult
  /\ spin' = FALSE

Next ==
  \/ Fmt
  \/ CallReadBack
  \/ CallReadTerm
  \/ CallParseTerm
  \/ CallReadRule
  \/ CallReadFile
  \/ Return
  \/ Abort
  \/ Spin
  \/ Reset

Spec == Init /\ [][Next]_vars

\* a call in progress goes on: it returns, panics or iterates again
LiveSpec == Spec /\ WF_vars(Return) /\ WF_vars(Abort) /\ WF_vars(Spin)

(***************************************************************************)
(* Properties                                                              *)
(***************************************************************************)
\* Ok(value), as a read_* function returns it
OkVal(v) == [tag |-> "Ok", val |-> v]

Range(s) == {s[i] : i \in 1..Len(s)}

\* the call in progress went, or is going, the way of a plain return
Returns == pc # "aborted" /\ ~spin

SugarNames == {S_Cons, S_Nil, S_StrCons, S_StrNil}

\* built only from Var, Lam, App, Let, Dup, Op2, Num and Ctr nodes whose
\* name is none of the four sugar names
RECURSIVE NonSugar(_)
NonSugar(t) ==
  CASE t.tag \in {"Var", "Num"} -> TRUE
    [] t.tag = "Lam" -> NonSugar(t.body)
    [] t.tag = "App" -> NonSugar(t.func) /\ NonSugar(t.argm)
    [] t.tag \in {"Let", "Dup"} -> NonSugar(t.expr) /\ NonSugar(t.body)
    [] t.tag = "Op2" -> NonSugar(t.val0) /\ NonSugar(t.val1)
    [] t.tag = "Ctr" ->
         t.name \notin SugarNames /\ \A i \in 1..Len(t.args) : NonSugar(t.args[i])

\* a non-empty run of letters, digits, underscores and dots
IsIdent(nm) == nm # <<>> /\ \A k \in 1..Len(nm) : is_letter(nm[k])

IsVarName(nm) ==
  /\ IsIdent(nm)
  /\ (nm[1] >= ch_a /\ nm[1] <= ch_z) \/ nm[1] = ch_underscore
  /\ nm \notin {Names.let, Names.dup}

IsCtrName(nm) == IsIdent(nm) /\ nm[1] >= ch_A /\ nm[1] <= ch_Z

\* every name is one the grammar reads back in the same role
RECURSIVE WellNamed(_)
WellNamed(t) ==
  CASE t.tag = "Var" -> IsVarName(t.name)
    [] t.tag = "Num" -> TRUE
    [] t.tag = "Lam" -> IsIdent(t.name) /\ WellNamed(t.body)
    [] t.tag = "App" -> WellNamed(t.func) /\ WellNamed(t.argm)
    [] t.tag = "Let" -> IsIdent(t.name) /\ WellNamed(t.expr) /\ WellNamed(t.body)
    [] t.tag = "Dup" ->
         IsIdent(t.nam0) /\ IsIdent(t.nam1) /\ WellNamed(t.expr) /\ WellNamed(t.body)
    [] t.tag = "Op2" -> WellNamed(t.val0) /\ WellNamed(t.val1)
    [] t.tag = "Ctr" ->
         IsCtrName(t.name) /\ \A i \in 1..Len(t.args) : WellNamed(t.args[i])

\* C1, as amended: for every term t built only from non-sugar nodes in
\* which every Var name is an identifier that starts with a lower-case
\* letter or an underscore and is neither "let" nor "dup", every binder
\* name of Lam, Let and Dup is a non-empty identifier and every Ctr name is
\* an identifier that starts with an upper-case letter, read_term of the
\* text printed for t returns Ok(t).
C1_RoundTrip ==
  (given.kind = "term" /\ NonSugar(given.term) /\ WellNamed(given.term))
    => /\ Returns
       /\ pc = "returned" => result = OkVal(given.term)

C1_RoundTrip_Witness ==
  /\ pc = "returned"
  /\ given.kind = "term"
  /\ NonSugar(given.term) /\ WellNamed(given.term)
  /\ given.term.tag = "Dup"
  /\ given.term.expr.tag = "Ctr"
  /\ result = OkVal(given.term)

\* C1, as stated: the round trip holds for every term built only from
\* non-sugar nodes, whatever its names.
C1_RoundTrip_AnyName ==
  (given.kind = "term" /\ NonSugar(given.term))
    => /\ Returns
       /\ pc = "returned" => result = OkVal(given.term)

\* a chain of two-argument StrCons nodes with a Num first, ended by StrNil
RECURSIVE IsStrChain(_)
IsStrChain(t) ==
  /\ t.tag = "Ctr"
  /\ \/ t.name = S_StrNil /\ t.args = <<>>
     \/ /\ t.name = S_StrCons /\ Len(t.args) = 2
        /\ t.args[1].tag = "Num"
        /\ IsStrChain(t.args[2])

\* a chain of two-argument Cons nodes ended by Nil
RECURSIVE IsLstChain(_)
IsLstChain(t) ==
  /\ t.tag = "Ctr"
  /\ \/ t.name = S_Nil /\ t.args = <<>>
     \/ t.name = S_Cons /\ Len(t.args) = 2 /\ IsLstChain(t.args[2])

\* "(name arg*)", every argument present
RECURSIVE PlainArgs(_)
PlainArgs(args) ==
  IF args = <<>> THEN <<>>
  ELSE <<ch_space>> \o fmt(Head(args)) \o PlainArgs(Tail(args))

PlainCtr(t) == <<ch_lparen>> \o t.name \o PlainArgs(t.args) \o <<ch_rparen>>

\* C2: a Ctr is printed as a string literal only if it is a chain of
\* two-argument StrCons nodes with Num heads ended by a zero-argument
\* StrNil, as a list literal only if it is a chain of two-argument Cons
\* nodes ended by a zero-argument Nil, and in the plain form
\* "(name arg*)" with every argument present when it is neither.
C2_ExactResugar ==
  (pc = "printed" /\ given.term.tag = "Ctr")
    => /\ Head(code) = ch_quote => IsStrChain(given.term)
       /\ Head(code) = ch_lbrack => IsLstChain(given.term)
       /\ (~IsStrChain(given.term) /\ ~IsLstChain(given.term))
            => code = PlainCtr(given.term)

\* C3: every call of read_term, read_rule and read_file on a finite text
\* eventually returns.
C3_Termination ==
  (pc = "running" /\ call \in {"read_term", "read_rule", "read_file"})
    ~> (pc # "running")

\* C4: the outcome of read_term is a Term or an "expected" error; no input
\* makes it abort.
C4_ErrorsAreValues == call = "read_term" => pc # "aborted"

\* C5: for each of the 16 operators, written with its symbol s, and all
\* operands a and b, read_term("(s a b)") returns Op2 of that operator, a
\* and b, and printing that Op2 gives "(s a b)" back.
C5_OperPriority ==
  given.kind = "op2"
    => /\ Returns
       /\ pc = "returned"
            => /\ result = OkVal(Op2(given.oper, given.a, given.b))
               /\ fmt(result.val) = given.code

C5_OperPriority_Witness ==
  /\ pc = "returned"
  /\ given.kind = "op2"
  /\ given.oper = "Lte"
  /\ given.a.tag = "Let"
  /\ result.tag = "Ok"
  /\ result.val.tag = "Op2"
  /\ result.val.oper = "Lte"

\* the chain cons(x1, cons(x2, ... cons(xn, nil)))
RECURSIVE ChainOf(_, _, _)
ChainOf(cons, nil, items) ==
  IF items = <<>> THEN Ctr(nil, <<>>)
  ELSE Ctr(cons, <<Head(items), ChainOf(cons, nil, Tail(items))>>)

CharNums(chars) == [i \in 1..Len(chars) |-> Num(U64OfNat(chars[i]))]

\* what C6 says of a list literal and of a double-quoted string
ListInverse ==
  /\ Returns
  /\ pc = "returned"
       => /\ result = OkVal(ChainOf(S_Cons, S_Nil, given.elems))
          /\ fmt(result.val) =
               <<ch_lbrack>> \o JoinWith(FmtAll(given.elems), <<ch_comma, ch_space>>)
                 \o <<ch_rbrack>>

StringInverse ==
  /\ Returns
  /\ pc = "returned"
       => /\ result = OkVal(ChainOf(S_StrCons, S_StrNil, CharNums(given.chars)))
          /\ fmt(result.val) = given.code

\* C6, as amended: read_term of "[e1,...,en]" returns the chain
\* Cons(e1, ... Cons(en, Nil)) and printing it gives "[e1, ..., en]"; for
\* characters c1..cn that contain neither the delimiter nor the NUL
\* character, read_term of the double-quoted string returns
\* StrCons(code(c1), ... StrCons(code(cn), StrNil)) and printing it gives
\* the double-quoted string back.
C6_SugarInverse ==
  /\ given.kind = "lst" => ListInverse
  /\ (given.kind = "str" /\ ch_nul \notin Range(given.chars)) => StringInverse

C6_SugarInverse_Witness ==
  /\ pc = "returned"
  /\ given.kind = "str"
  /\ Len(given.chars) = MaxChars
  /\ ch_nul \notin Range(given.chars)
  /\ result.tag = "Ok"
  /\ result.val.name = S_StrCons

\* C6, as stated: the string half holds for every run of characters
\* without the delimiter.
C6_SugarInverse_AnyChar ==
  /\ given.kind = "lst" => ListInverse
  /\ given.kind = "str" => StringInverse

\* C7: read_file on k well-formed rules returns those rules in order; when
\* the text left after them is not a definition, it fails expecting a
\* definition at the offset where that text starts.
C7_ReadFile ==
  (given.kind = "file" /\ pc = "returned")
    => IF given.garbage = <<>>
       THEN result = OkVal(File(given.rules))
       ELSE result = expected("definition", Len(code) - Len(given.garbage))

\* the text has every part of name [name] "=" expr ";" body
FullForm(has) == has.name /\ has.eq /\ has.expr /\ has.semi /\ has.body

\* C8: once "let " or "dup " has matched, read_term returns a Let or a Dup
\* only when the text has the full form, and an error when a part of it is
\* missing.
C8_Committed ==
  (given.kind \in {"let", "dup"} /\ pc = "returned")
    => IF FullForm(given.has)
       THEN result.tag = "Ok"
              /\ result.val.tag = (IF given.kind = "let" THEN "Let" ELSE "Dup")
       ELSE result.tag = "Err"

\* the left-nested App(...App(App(t1, t2), t3)..., tn); t1 itself for n = 1
RECURSIVE LeftNested(_)
LeftNested(ts) ==
  IF Len(ts) = 1 THEN ts[1]
  ELSE App(LeftNested(SubSeq(ts, 1, Len(ts) - 1)), ts[Len(ts)])

\* C9: read_term("(t1 ... tn)") returns the left-nested App of t1..tn for
\* n >= 2, t1 itself for n = 1 and Num(0) for "()"; a left-nested spine of
\* a head that is no App and n arguments is printed as the one group
\* "(head arg1 ... argn)".
C9_AppSpine ==
  given.kind = "app"
    => /\ Returns
       /\ pc = "returned"
            => /\ result = OkVal(IF given.elems = <<>> THEN Num(<<0>>)
                                 ELSE LeftNested(given.elems))
               /\ (Len(given.elems) > 1 /\ given.elems[1].tag # "App")
                    => fmt(result.val) = given.code

C9_AppSpine_Witness ==
  /\ pc = "returned"
  /\ given.kind = "app"
  /\ Len(given.elems) = MaxArgs
  /\ given.elems[1].tag = "Var"
  /\ result.tag = "Ok"
  /\ result.val.tag = "App"
  /\ result.val.func.tag = "App"

\* C10: whenever parse_term returns a term, the offset it returns is
\* greater than the offset of the first significant character it started
\* from.
C10_Progress ==
  (call = "parse_term" /\ pc = "returned" /\ result.tag = "Ok")
    => result.idx > skip(code, 0)

=============================================================================
